---- MODULE Spec2Model ----
(***************************************************************************)
(* A model of microsetta_public_api/config.py: the Element hierarchy with  *)
(* its path API (gets / has / updates), ElementFactory, the three schema   *)
(* descriptors with make_elements and validate, and the module bootstrap.  *)
(*                                                                         *)
(* Python values are records [tag, s, n, kids]:                            *)
(*   tag   the Python class of the value ("NoneType", "bool", "int",       *)
(*         "float", "str", "list", "dict" for raw decoded JSON, and the    *)
(*         Element classes of config.py),                                  *)
(*   s     the text of a str (or the decimal text of a float),             *)
(*   n     the number of an int, 0/1 for a bool,                           *)
(*   kids  the entries of a container in order: <<[k, v], ...>>; a dict    *)
(*         keeps insertion order, a list entry carries the key NoKey.      *)
(* Keys and path segments are records [t, s, i].                           *)
(***************************************************************************)
EXTENDS Integers, Sequences, FiniteSets, TLC

VARIABLES
    json_dump,      \* the decoded document handed to make_elements
    tree,           \* the Element tree make_elements returned
    last,           \* the last call on the tree and what the caller observed
    nupd,           \* number of updates calls made so far
    file,           \* the packaged configuration file
    importlib,      \* whether importlib.resources can be imported
    pc,             \* position of the module-level bootstrap code
    SERVER_CONFIG,  \* module global SERVER_CONFIG
    resources,      \* module global resources (the registry)
    err,            \* the exception that ended module initialisation
    visitor,        \* the visitor handed to accept
    visited         \* the callbacks the visitor received, in order

vars == <<json_dump, tree, last, nupd, file, importlib, pc, SERVER_CONFIG,
          resources, err, visitor, visited>>

-----------------------------------------------------------------------------
(* Keys and path segments *)

StrSeg(str) == [t |-> "str", s |-> str, i |-> 0]
IntSeg(int) == [t |-> "int", s |-> "", i |-> int]
NoneKey == [t |-> "None", s |-> "", i |-> 0]
BoolKey(b) == [t |-> "bool", s |-> "", i |-> b]
FloatKey(txt) == [t |-> "float", s |-> txt, i |-> 0]
NoKey == [t |-> "-", s |-> "", i |-> 0]

\* Python's == (and hash agreement) on keys: True == 1 and False == 0; the
\* floats of the model are not integral, so a float equals only itself.
KeyEq(a, b) ==
    IF a.t \in {"int", "bool"} /\ b.t \in {"int", "bool"}
    THEN a.i = b.i
    ELSE a.t = b.t /\ a.s = b.s

-----------------------------------------------------------------------------
(* Values *)

Mk(tag, str, num, kids) == [tag |-> tag, s |-> str, n |-> num, kids |-> kids]

None == Mk("NoneType", "", 0, <<>>)
True == Mk("bool", "", 1, <<>>)
False == Mk("bool", "", 0, <<>>)
RawInt(num) == Mk("int", "", num, <<>>)
RawFloat(txt) == Mk("float", txt, 0, <<>>)
RawStr(str) == Mk("str", str, 0, <<>>)
RawList(items) == Mk("list", "", 0, [j \in 1..Len(items) |-> [k |-> NoKey, v |-> items[j]]])
RawDict(kids) == Mk("dict", "", 0, kids)
Entry(key, val) == [k |-> StrSeg(key), v |-> val]
\* a name that is not bound (yet)
Unset == Mk("<unset>", "", 0, <<>>)

DictTags == {"dict", "DictElement", "AlphaElement", "TaxonomyElement", "PCOAElement"}
ListTags == {"list", "ListElement"}
StrTags == {"str", "LiteralElement(str)", "MetadataElement"}
IntTags == {"int", "LiteralElement(int)"}
FloatTags == {"float", "LiteralElement(float)"}
ElementTags == {"DictElement", "AlphaElement", "TaxonomyElement", "PCOAElement",
                "ListElement", "MetadataElement", "LiteralElement(int)",
                "LiteralElement(float)", "LiteralElement(str)"}

\* isinstance(x, dict), isinstance(x, list), isinstance(x, str)
IsDict(x) == x.tag \in DictTags
IsList(x) == x.tag \in ListTags
IsStr(x) == x.tag \in StrTags
\* hasattr(x, 'gets'), hasattr(x, 'has'): the methods of class Element
IsElement(x) == x.tag \in ElementTags
\* hasattr(x, 'updates'): DictElement and its subclasses
HasUpdates(x) == x.tag \in {"DictElement", "AlphaElement", "TaxonomyElement", "PCOAElement"}

\* what a call gave its caller: a returned value or a raised exception
Return(val) == [kind |-> "return", exc |-> "", seg |-> NoKey, v |-> val]
Raise(exc, seg) == [kind |-> "raise", exc |-> exc, seg |-> seg, v |-> None]

-----------------------------------------------------------------------------
(* dict and list primitives *)

\* position of key in the entries of a dict, 0 when absent
KeyPos(kids, key) ==
    IF \E j \in 1..Len(kids) : KeyEq(kids[j].k, key)
    THEN CHOOSE j \in 1..Len(kids) : KeyEq(kids[j].k, key)
    ELSE 0

\* d[key] = val : an existing key keeps its place, a new one goes last
DictSet(kids, key, val) ==
    IF KeyPos(kids, key) > 0
    THEN [kids EXCEPT ![KeyPos(kids, key)] = [k |-> kids[KeyPos(kids, key)].k, v |-> val]]
    ELSE Append(kids, [k |-> key, v |-> val])

\* self[first] for the classes of the model
GetItem(self, first) ==
    IF IsDict(self)
    THEN IF KeyPos(self.kids, first) > 0
         THEN Return(self.kids[KeyPos(self.kids, first)].v)
         ELSE Raise("KeyError", first)
    ELSE IF IsList(self)
    THEN IF first.t \notin {"int", "bool"} THEN Raise("TypeError", NoKey)
         ELSE IF first.i >= 0 /\ first.i < Len(self.kids)
              THEN Return(self.kids[first.i + 1].v)
         ELSE IF first.i < 0 /\ first.i >= 0 - Len(self.kids)
              THEN Return(self.kids[Len(self.kids) + first.i + 1].v)
         ELSE Raise("IndexError", NoKey)
    ELSE IF IsStr(self)
    THEN IF first.t \notin {"int", "bool"} THEN Raise("TypeError", NoKey)
         ELSE IF first.i >= 0 /\ first.i < Len(self.s)
              THEN Return(RawStr(SubSeq(self.s, first.i + 1, first.i + 1)))
         ELSE IF first.i < 0 /\ first.i >= 0 - Len(self.s)
              THEN Return(RawStr(SubSeq(self.s, Len(self.s) + first.i + 1,
                                        Len(self.s) + first.i + 1)))
         ELSE Raise("IndexError", NoKey)
    ELSE Raise("TypeError", NoKey)

Tail2(path) == SubSeq(path, 2, Len(path))

-----------------------------------------------------------------------------
(* Element.gets, Element.has *)

RECURSIVE gets(_, _)
gets(self, args) ==
    IF Len(args) = 0 THEN Return(self)
    ELSE LET first == args[1]
             rest == Tail2(args)
             item == GetItem(self, first)
         IN IF item.kind = "raise"
            THEN Raise("KeyError", first)
            ELSE IF ~IsElement(item.v) /\ Len(rest) = 0
            THEN Return(item.v)
            ELSE IF ~IsElement(item.v)
            THEN Raise("AttributeError", NoKey)
            ELSE gets(item.v, rest)

RECURSIVE has(_, _)
has(self, args) ==
    IF Len(args) = 0 THEN Return(True)
    ELSE LET first == args[1]
             rest == Tail2(args)
             next_ == GetItem(self, first)
         IN IF next_.kind = "raise"
            THEN Return(False)
            ELSE IF ~IsElement(next_.v)
            THEN Raise("AttributeError", NoKey)
            ELSE has(next_.v, rest)

-----------------------------------------------------------------------------
(* str(x), repr(x) and dict(x), the constructors behind the typed elements *)

\* repr of a str: single quotes, double quotes when the text holds a single
\* quote and no double quote, and otherwise backslash escapes
RECURSIVE Contains(_, _, _)
Contains(str, ch, j) ==
    IF j > Len(str) THEN FALSE
    ELSE SubSeq(str, j, j) = ch \/ Contains(str, ch, j + 1)

RECURSIVE Escaped(_, _)
Escaped(str, j) ==
    IF j > Len(str) THEN ""
    ELSE (IF SubSeq(str, j, j) \in {"'", "\\"} THEN "\\" ELSE "")
         \o SubSeq(str, j, j) \o Escaped(str, j + 1)

RECURSIVE EscapedBackslash(_, _)
EscapedBackslash(str, j) ==
    IF j > Len(str) THEN ""
    ELSE (IF SubSeq(str, j, j) = "\\" THEN "\\" ELSE "")
         \o SubSeq(str, j, j) \o EscapedBackslash(str, j + 1)

StrRepr(str) ==
    IF Contains(str, "'", 1) /\ ~Contains(str, "\"", 1)
    THEN "\"" \o EscapedBackslash(str, 1) \o "\""
    ELSE "'" \o Escaped(str, 1) \o "'"

KeyRepr(key) ==
    CASE key.t = "str" -> StrRepr(key.s)
      [] key.t = "int" -> ToString(key.i)
      [] key.t = "bool" -> (IF key.i = 1 THEN "True" ELSE "False")
      [] key.t = "float" -> key.s
      [] OTHER -> "None"

RECURSIVE PyRepr(_)
RECURSIVE JoinRepr(_, _, _)
\* the entries of a list (isDict = FALSE) or a dict from position j on
JoinRepr(kids, j, isDict) ==
    IF j > Len(kids) THEN ""
    ELSE (IF j > 1 THEN ", " ELSE "")
         \o (IF isDict THEN KeyRepr(kids[j].k) \o ": " ELSE "")
         \o PyRepr(kids[j].v)
         \o JoinRepr(kids, j + 1, isDict)

PyRepr(x) ==
    CASE x.tag = "NoneType" -> "None"
      [] x.tag = "bool" -> (IF x.n = 1 THEN "True" ELSE "False")
      [] x.tag \in IntTags -> ToString(x.n)
      [] x.tag \in FloatTags -> x.s
      [] IsStr(x) -> StrRepr(x.s)
      [] IsList(x) -> "[" \o JoinRepr(x.kids, 1, FALSE) \o "]"
      [] IsDict(x) -> "{" \o JoinRepr(x.kids, 1, TRUE) \o "}"
      [] OTHER -> "<" \o x.tag \o ">"

\* str(x): a str is itself, anything else prints as its repr
PyStr(x) == IF IsStr(x) THEN x.s ELSE PyRepr(x)

\* hash(x) succeeds: containers are unhashable
Hashable(x) == ~IsDict(x) /\ ~IsList(x)

\* the key a hashable value is when used as a dict key
NodeToKey(x) ==
    CASE x.tag = "NoneType" -> NoneKey
      [] x.tag = "bool" -> BoolKey(x.n)
      [] x.tag \in IntTags -> IntSeg(x.n)
      [] x.tag \in FloatTags -> FloatKey(x.s)
      [] OTHER -> StrSeg(x.s)

\* the value a dict key is when it is iterated out of the dict
KeyToNode(key) ==
    CASE key.t = "None" -> None
      [] key.t = "bool" -> Mk("bool", "", key.i, <<>>)
      [] key.t = "int" -> RawInt(key.i)
      [] key.t = "float" -> RawFloat(key.s)
      [] OTHER -> RawStr(key.s)

\* list(x) for an iterable x: the entries of a list, the keys of a dict, the
\* characters of a str
RECURSIVE Chars(_, _)
Chars(str, j) ==
    IF j > Len(str) THEN <<>>
    ELSE <<RawStr(SubSeq(str, j, j))>> \o Chars(str, j + 1)

Iterable(x) == IsDict(x) \/ IsList(x) \/ IsStr(x)

Items(x) ==
    IF IsList(x) THEN [j \in 1..Len(x.kids) |-> x.kids[j].v]
    ELSE IF IsDict(x) THEN [j \in 1..Len(x.kids) |-> KeyToNode(x.kids[j].k)]
    ELSE Chars(x.s, 1)

\* dict(x) on a sequence of pairs, entry j onwards, onto the entries acc:
\* [exc, kids]
RECURSIVE DictFromPairs(_, _, _)
DictFromPairs(items, j, acc) ==
    IF j > Len(items) THEN [exc |-> "", kids |-> acc]
    ELSE LET e == items[j] IN
         IF ~Iterable(e) THEN [exc |-> "TypeError", kids |-> acc]
         ELSE IF Len(Items(e)) # 2 THEN [exc |-> "ValueError", kids |-> acc]
         ELSE IF ~Hashable(Items(e)[1]) THEN [exc |-> "TypeError", kids |-> acc]
         ELSE DictFromPairs(items, j + 1,
                            DictSet(acc, NodeToKey(Items(e)[1]), Items(e)[2]))

\* dict(x): a dict is copied, any other iterable must yield pairs
DictFrom(x) ==
    IF IsDict(x) THEN [exc |-> "", kids |-> x.kids]
    ELSE IF ~Iterable(x) THEN [exc |-> "TypeError", kids |-> <<>>]
    ELSE DictFromPairs(Items(x), 1, <<>>)

\* element_type(value) for the four typed elements: the three DictElement
\* subclasses construct through dict(value), MetadataElement through str(value)
Construct(element_type, value) ==
    IF element_type = "MetadataElement"
    THEN Return(Mk("MetadataElement", PyStr(value), 0, <<>>))
    ELSE IF DictFrom(value).exc # ""
    THEN Raise(DictFrom(value).exc, NoKey)
    ELSE Return(Mk(element_type, "", 0, DictFrom(value).kids))

-----------------------------------------------------------------------------
(* ElementFactory *)

\* create_literal_element(literal)(obj)
create_literal_element(literal, obj) ==
    Mk("LiteralElement(" \o literal \o ")", obj.s, obj.n, <<>>)

\* the message of the NotImplementedError, carried as the exception's argument
NoElementFor(obj) == StrSeg("No Element for type: <class '" \o obj.tag \o "'>")

\* get_element with the int test ahead of the bool test
get_element_int_first(obj) ==
    IF obj.tag = "NoneType" THEN Return(obj)
    ELSE IF obj.tag \in IntTags \cup {"bool"} THEN Return(create_literal_element("int", obj))
    ELSE IF obj.tag \in FloatTags THEN Return(create_literal_element("float", obj))
    ELSE IF IsStr(obj) THEN Return(create_literal_element("str", obj))
    ELSE IF IsList(obj) THEN Return(Mk("ListElement", "", 0, obj.kids))
    ELSE IF IsDict(obj) THEN Return(Mk("DictElement", "", 0, obj.kids))
    ELSE Raise("NotImplementedError", NoElementFor(obj))

get_element(obj) ==
    IF obj.tag = "NoneType" THEN Return(obj)
    ELSE IF obj.tag = "bool" THEN Return(obj)
    ELSE IF obj.tag \in IntTags THEN Return(create_literal_element("int", obj))
    ELSE IF obj.tag \in FloatTags THEN Return(create_literal_element("float", obj))
    ELSE IF IsStr(obj) THEN Return(create_literal_element("str", obj))
    ELSE IF IsList(obj) THEN Return(Mk("ListElement", "", 0, obj.kids))
    ELSE IF IsDict(obj) THEN Return(Mk("DictElement", "", 0, obj.kids))
    ELSE Raise("NotImplementedError", NoElementFor(obj))

-----------------------------------------------------------------------------
(* accept and the visitor *)

Hooks == {"visit_alpha", "visit_taxonomy", "visit_pcoa", "visit_metadata"}

\* A visitor gives each hook one of: "implemented" (the method returns),
\* "abstract" (the method inherited from ConfigElementVisitor, which raises
\* NotImplementedError), "missing" (the visitor has no such attribute: the
\* call raises AttributeError).
NoVisitor == [hook \in Hooks |-> "-"]
CompleteVisitor == [hook \in Hooks |-> "implemented"]
Visitors ==
    {CompleteVisitor}
    \cup {[CompleteVisitor EXCEPT ![hook] = how] : hook \in Hooks, how \in {"abstract", "missing"}}

\* the hook the accept of each typed element calls
HookOf(tag) ==
    CASE tag = "AlphaElement" -> "visit_alpha"
      [] tag = "TaxonomyElement" -> "visit_taxonomy"
      [] tag = "PCOAElement" -> "visit_pcoa"
      [] OTHER -> "visit_metadata"

\* visitor.visit_<kind>(self) for the element at path: [out, log], log being
\* the invocations the visitor received
Visit(v, hook, path) ==
    IF v[hook] = "missing"
    THEN [out |-> Raise("AttributeError", NoKey), log |-> <<>>]
    ELSE IF v[hook] = "abstract"
    THEN [out |-> Raise("NotImplementedError", NoKey), log |-> <<[hook |-> hook, at |-> path]>>]
    ELSE [out |-> Return(None), log |-> <<[hook |-> hook, at |-> path]>>]

\* the key or index of entry j of a container
ChildKey(self, j) == IF IsDict(self) THEN self.kids[j].k ELSE IntSeg(j - 1)

RECURSIVE accept(_, _, _)
RECURSIVE AcceptEach(_, _, _, _, _)
\* DictElement.accept / ListElement.accept: the loop over the values from
\* entry j on; an AttributeError of val.accept(visitor) is passed over
AcceptEach(self, j, v, path, log) ==
    IF j > Len(self.kids) THEN [out |-> Return(None), log |-> log]
    ELSE LET val == self.kids[j].v
             r == IF IsElement(val)
                  THEN accept(val, v, Append(path, ChildKey(self, j)))
                  ELSE [out |-> Raise("AttributeError", NoKey), log |-> <<>>]
         IN IF r.out.kind = "raise" /\ r.out.exc # "AttributeError"
            THEN [out |-> r.out, log |-> log \o r.log]
            ELSE AcceptEach(self, j + 1, v, path, log \o r.log)

\* accept with the hook of a typed container called before its children
accept_preorder(self, v, path) ==
    IF self.tag \in {"DictElement", "ListElement"}
    THEN AcceptEach(self, 1, v, path, <<>>)
    ELSE IF self.tag \in {"AlphaElement", "TaxonomyElement", "PCOAElement"}
    THEN LET called == Visit(v, HookOf(self.tag), path)
             super == AcceptEach(self, 1, v, path, called.log)
         IN IF called.out.kind = "raise" THEN called ELSE super
    ELSE IF self.tag = "MetadataElement"
    THEN Visit(v, "visit_metadata", path)
    ELSE [out |-> Return(None), log |-> <<>>]

\* self.accept(visitor) for the element self found at path: [out, log]
accept(self, v, path) ==
    IF self.tag \in {"DictElement", "ListElement"}
    THEN AcceptEach(self, 1, v, path, <<>>)
    ELSE IF self.tag \in {"AlphaElement", "TaxonomyElement", "PCOAElement"}
    THEN LET super == AcceptEach(self, 1, v, path, <<>>)
             called == Visit(v, HookOf(self.tag), path)
         IN IF super.out.kind = "raise" THEN super
            ELSE [out |-> called.out, log |-> super.log \o called.log]
    ELSE IF self.tag = "MetadataElement"
    THEN Visit(v, "visit_metadata", path)
    ELSE [out |-> Return(None), log |-> <<>>]

-----------------------------------------------------------------------------
(* Schema descriptors: the keyword maps and make_elements *)

SchemaNames == {"Schema", "LegacySchema", "CompatibilitySchema"}

\* SchemaBase.element_map / CompatibilitySchema.element_map as a lookup:
\* the element type of a key, "" for element_map().get(key, None) = None
NewKeywordType(key) ==
    CASE key = "__alpha__" -> "AlphaElement"
      [] key = "__taxonomy__" -> "TaxonomyElement"
      [] key = "__pcoa__" -> "PCOAElement"
      [] key = "__metadata__" -> "MetadataElement"
      [] OTHER -> ""

OldKeywordType(key) ==
    CASE key = "alpha_resources" -> "AlphaElement"
      [] key = "table_resources" -> "TaxonomyElement"
      [] key = "pcoa" -> "PCOAElement"
      [] key = "metadata" -> "MetadataElement"
      [] OTHER -> ""

\* element_map with two constructors exchanged: alpha_resources given the
\* metadata element, metadata the alpha element
element_map_exchanged(schema, key) ==
    IF key.t # "str" THEN ""
    ELSE IF schema = "Schema" THEN NewKeywordType(key.s)
    ELSE IF key.s = "alpha_resources" THEN "MetadataElement"
    ELSE IF key.s = "metadata" THEN "AlphaElement"
    ELSE IF schema = "LegacySchema" THEN OldKeywordType(key.s)
    ELSE IF OldKeywordType(key.s) # "" THEN OldKeywordType(key.s)
    ELSE NewKeywordType(key.s)

\* element_map as SchemaBase defines it, not overridden by any descriptor
element_map_current_only(schema, key) ==
    IF key.t # "str" THEN "" ELSE NewKeywordType(key.s)

element_map(schema, key) ==
    IF key.t # "str" THEN ""
    ELSE IF schema = "Schema" THEN NewKeywordType(key.s)
    ELSE IF schema = "LegacySchema" THEN OldKeywordType(key.s)
    ELSE IF OldKeywordType(key.s) # "" THEN OldKeywordType(key.s)
    ELSE NewKeywordType(key.s)

\* make_elements gives [out, dump]: what the caller observes, and json_dump
\* as the call left it (the document is rewritten in place).
RECURSIVE make_elements(_, _)
RECURSIVE MakeEntries(_, _, _)
\* the loop over the entries of a list or dict, from entry j on: [exc, kids]
MakeEntries(schema, dump, j) ==
    IF j > Len(dump.kids) THEN [exc |-> "", kids |-> dump.kids]
    ELSE LET key == dump.kids[j].k
             sub == make_elements(schema, dump.kids[j].v)
             element_type == IF IsDict(dump) THEN element_map(schema, key) ELSE ""
             typed == Construct(element_type, sub.out.v)
             put(val) == [dump EXCEPT !.kids[j] = [k |-> key, v |-> val]]
         IN IF sub.out.kind = "raise"
            THEN [exc |-> sub.out.exc, kids |-> put(sub.dump).kids]
            ELSE IF element_type = ""
            THEN MakeEntries(schema, put(sub.out.v), j + 1)
            ELSE IF typed.kind = "raise"
            THEN [exc |-> typed.exc, kids |-> put(sub.out.v).kids]
            ELSE MakeEntries(schema, put(typed.v), j + 1)

make_elements(schema, dump) ==
    IF IsList(dump) \/ IsDict(dump)
    THEN LET done == MakeEntries(schema, dump, 1)
             after == [dump EXCEPT !.kids = done.kids]
         IN IF done.exc # ""
            THEN [out |-> Raise(done.exc, NoKey), dump |-> after]
            ELSE [out |-> get_element(after), dump |-> after]
    ELSE [out |-> get_element(dump), dump |-> dump]

-----------------------------------------------------------------------------
(* DictElement.updates *)

ValueErrorObject == Mk("ValueError", "Must receive at least one key.", 0, <<>>)

\* updates gives [out, self]: what the caller observes, and self afterwards
RECURSIVE updates(_, _, _)
updates(self, value, args) ==
    IF Len(args) = 0
    THEN [out |-> Return(ValueErrorObject), self |-> self]
    ELSE LET first == args[1]
             rest == Tail2(args)
             pos == KeyPos(self.kids, first)
             fresh == Mk("DictElement", "", 0, <<>>)
             into(child) == updates(child, value, rest)
             put(child) == [self EXCEPT !.kids = DictSet(self.kids, first, child)]
         IN IF Len(rest) = 0
            THEN [out |-> Return(None), self |-> put(value)]
            ELSE IF pos > 0 /\ IsDict(self.kids[pos].v)
            THEN IF ~HasUpdates(self.kids[pos].v)
                 THEN [out |-> Raise("AttributeError", NoKey), self |-> self]
                 ELSE [out |-> into(self.kids[pos].v).out,
                       self |-> put(into(self.kids[pos].v).self)]
            ELSE [out |-> into(fresh).out, self |-> put(into(fresh).self)]

-----------------------------------------------------------------------------
(* Bounded inputs of the Element API *)

\* a decoded JSON document has at most MaxNodes values (containers and leaves)
MaxNodes == 3
\* a path has at most MaxPathLen segments
MaxPathLen == 2

Scalars == {None, True, RawInt(1), RawStr("ab")}
\* the keys of the objects of a document, in document order
DocKeys == <<"a", "pcoa", "metadata">>
Segments == {StrSeg(DocKeys[j]) : j \in 1..Len(DocKeys)} \cup {IntSeg(0), IntSeg(1), IntSeg(-1)}

RECURSIVE SeqsUpTo(_, _)
SeqsUpTo(S, len) ==
    IF len = 0 THEN {<<>>}
    ELSE SeqsUpTo(S, len - 1)
         \cup {Append(q, x) : q \in {r \in SeqsUpTo(S, len - 1) : Len(r) = len - 1}, x \in S}

Paths == SeqsUpTo(Segments, MaxPathLen)

\* strictly increasing sequences of len positions of DocKeys starting above lo
RECURSIVE KeyChoices(_, _)
KeyChoices(len, lo) ==
    IF len = 0 THEN {<<>>}
    ELSE UNION {{<<j>> \o q : q \in KeyChoices(len - 1, j)} : j \in (lo + 1)..Len(DocKeys)}

\* the decoded JSON values of exactly size values, and the sequences of
\* values of total size
RECURSIVE JsonOfSize(_)
RECURSIVE JsonSeqs(_)
JsonSeqs(size) ==
    IF size = 0 THEN {<<>>}
    ELSE UNION {{<<x>> \o q : x \in JsonOfSize(first), q \in JsonSeqs(size - first)} :
                first \in 1..size}

JsonOfSize(size) ==
    IF size = 1 THEN Scalars \cup {RawList(<<>>), RawDict(<<>>)}
    ELSE {RawList(q) : q \in JsonSeqs(size - 1)}
         \cup UNION {{RawDict([j \in 1..Len(q) |-> Entry(DocKeys[ks[j]], q[j])]) :
                        ks \in KeyChoices(Len(q), 0)} : q \in JsonSeqs(size - 1)}

JsonDocs == UNION {JsonOfSize(size) : size \in 1..MaxNodes}

-----------------------------------------------------------------------------
(* The state after a successful import of the module *)

DefaultConfig == RawDict(<<Entry("resources", RawDict(<<>>))>>)
\* a call: the operation, the descriptor it was made on, the path arguments,
\* the value argument (for make_elements the document as it was handed over)
\* and the outcome
NoCall == [op |-> "", schema |-> "", args |-> <<>>, value |-> None, out |-> Return(None)]
Call(op, schema, args, value, out) ==
    [op |-> op, schema |-> schema, args |-> args, value |-> value, out |-> out]

Imported ==
    /\ file = [kind |-> "json", doc |-> DefaultConfig]
    /\ importlib = TRUE
    /\ pc = "done"
    /\ SERVER_CONFIG = DefaultConfig
    /\ resources = RawDict(<<>>)
    /\ err = ""

Init ==
    /\ json_dump \in JsonDocs
    /\ tree = Unset
    /\ last = NoCall
    /\ nupd = 0
    /\ visitor = NoVisitor
    /\ visited = <<>>
    /\ Imported

boot == <<file, importlib, pc, SERVER_CONFIG, resources, err>>

\* tree = schema.make_elements(json_dump), for any of the three descriptors
MakeElements(schema) ==
    /\ last.op = ""
    /\ json_dump # Unset
    /\ LET made == make_elements(schema, json_dump) IN
       /\ json_dump' = made.dump
       /\ tree' = IF made.out.kind = "return" THEN made.out.v ELSE Unset
       /\ last' = Call("make_elements", schema, <<>>, json_dump, made.out)
    /\ UNCHANGED <<nupd, boot, visitor, visited>>

\* tree.gets(*args), on the tree make_elements or get_element returned. A
\* lookup leaves the tree as it is, so a run makes one lookup on the tree it
\* built: a second one would see what a first one sees.
Gets(args) ==
    /\ IsElement(tree)
    /\ last.op \in {"make_elements", "get_element"}
    /\ last' = Call("gets", "", args, None, gets(tree, args))
    /\ UNCHANGED <<json_dump, tree, nupd, boot, visitor, visited>>

\* tree.has(*args)
Has(args) ==
    /\ IsElement(tree)
    /\ last.op \in {"make_elements", "get_element"}
    /\ last' = Call("has", "", args, None, has(tree, args))
    /\ UNCHANGED <<json_dump, tree, nupd, boot, visitor, visited>>

Next ==
    \/ \E schema \in SchemaNames : MakeElements(schema)
    \/ \E args \in Paths : Gets(args)
    \/ \E args \in Paths : Has(args)

Spec == Init /\ [][Next]_vars

-----------------------------------------------------------------------------
(* Building a tree with updates *)

\* a run makes at most MaxUpdates calls of updates
MaxUpdates == 2

\* values stored by updates: a raw str and a raw dict (values that were not
\* converted to Elements), and an Element
UpdValues == {RawStr("zz"), RawDict(<<>>), Mk("LiteralElement(int)", "", 7, <<>>)}
UpdSegments == {StrSeg("a"), StrSeg("pcoa"), IntSeg(0)}
UpdPaths == SeqsUpTo(UpdSegments, MaxPathLen)

\* tree.updates(value, *args)
Updates(value, args) ==
    /\ HasUpdates(tree)
    /\ nupd < MaxUpdates
    /\ LET upd == updates(tree, value, args) IN
       /\ tree' = upd.self
       /\ last' = Call("updates", "", args, value, upd.out)
    /\ nupd' = nupd + 1
    /\ UNCHANGED <<json_dump, boot, visitor, visited>>

NextUpdates ==
    \/ \E schema \in SchemaNames : MakeElements(schema)
    \/ \E value \in UpdValues, args \in UpdPaths : Updates(value, args)

SpecUpdates == Init /\ [][NextUpdates]_vars

-----------------------------------------------------------------------------
(* ElementFactory.get_element applied on its own *)

\* values that are no decoded JSON: a tuple, a set, bytes
OtherTypes == {Mk("tuple", "", 0, <<>>), Mk("set", "", 0, <<>>), Mk("bytes", "", 0, <<>>)}
Floats == {RawFloat("1.5"), RawFloat("-0.25")}
FactoryInputs == JsonDocs \cup Floats \cup OtherTypes

InitFactory ==
    /\ json_dump \in FactoryInputs
    /\ tree = Unset
    /\ last = NoCall
    /\ nupd = 0
    /\ visitor = NoVisitor
    /\ visited = <<>>
    /\ Imported

\* tree = ElementFactory.get_element(json_dump)
GetElement ==
    /\ last.op = ""
    /\ tree' = IF get_element(json_dump).kind = "return" THEN get_element(json_dump).v ELSE Unset
    /\ last' = Call("get_element", "", <<>>, json_dump, get_element(json_dump))
    /\ UNCHANGED <<json_dump, nupd, boot, visitor, visited>>

NextFactory ==
    \/ GetElement
    \/ \E args \in Paths : Gets(args)
    \/ \E args \in Paths : Has(args)

SpecFactory == InitFactory /\ [][NextFactory]_vars

-----------------------------------------------------------------------------
(* The JSON Schemas of the three descriptors, as jsonschema applies them *)

HasKey(x, key) == KeyPos(x.kids, StrSeg(key)) > 0
At(x, key) == x.kids[KeyPos(x.kids, StrSeg(key))].v
\* the values "additionalProperties" applies to: those of the keys that
\* "properties" does not name
Additional(x, named) ==
    {x.kids[j].v : j \in {i \in 1..Len(x.kids) : x.kids[i].k.s \notin named}}

alpha_schema(x) == IsStr(x)

\* alpha_group_schema without its "type": "object"
alpha_group_schema_untyped(x) ==
    IsDict(x) => \A v \in Additional(x, {}) : alpha_schema(v)

alpha_group_schema(x) ==
    IsDict(x) /\ \A v \in Additional(x, {}) : alpha_schema(v)

\* taxonomy_schema without its "required"
taxonomy_schema_optional(x) ==
    /\ IsDict(x)
    /\ HasKey(x, "table") => IsStr(At(x, "table"))
    /\ HasKey(x, "feature-data-taxonomy") => IsStr(At(x, "feature-data-taxonomy"))

taxonomy_schema(x) ==
    /\ IsDict(x)
    /\ HasKey(x, "table") => IsStr(At(x, "table"))
    /\ HasKey(x, "feature-data-taxonomy") => IsStr(At(x, "feature-data-taxonomy"))
    /\ HasKey(x, "table") /\ HasKey(x, "feature-data-taxonomy")

taxonomy_group_schema(x) ==
    IsDict(x) /\ \A v \in Additional(x, {}) : taxonomy_schema(v)

pcoa_schema(x) ==
    IsDict(x) /\ \A v \in Additional(x, {}) : IsStr(v)

pcoa_group_schema(x) ==
    IsDict(x) /\ \A v \in Additional(x, {}) : pcoa_schema(v)

metadata_schema(x) == IsStr(x)

\* dataset_schema without its "additionalProperties": False
dataset_schema_open(x) ==
    /\ IsDict(x)
    /\ HasKey(x, "__alpha__") => alpha_group_schema(At(x, "__alpha__"))
    /\ HasKey(x, "__taxonomy__") => taxonomy_group_schema(At(x, "__taxonomy__"))
    /\ HasKey(x, "__pcoa__") => pcoa_group_schema(At(x, "__pcoa__"))

\* the schema of one dataset: the additionalProperties of "datasets", itself
\* with "additionalProperties": False
dataset_schema(x) ==
    /\ IsDict(x)
    /\ HasKey(x, "__alpha__") => alpha_group_schema(At(x, "__alpha__"))
    /\ HasKey(x, "__taxonomy__") => taxonomy_group_schema(At(x, "__taxonomy__"))
    /\ HasKey(x, "__pcoa__") => pcoa_group_schema(At(x, "__pcoa__"))
    /\ Additional(x, {"__alpha__", "__taxonomy__", "__pcoa__"}) = {}

datasets_schema(x) ==
    /\ IsDict(x)
    /\ HasKey(x, "__metadata__") => metadata_schema(At(x, "__metadata__"))
    /\ \A v \in Additional(x, {"__metadata__"}) : dataset_schema(v)

Schema_schema(x) ==
    /\ IsDict(x)
    /\ HasKey(x, "datasets") => datasets_schema(At(x, "datasets"))

LegacySchema_schema(x) ==
    /\ IsDict(x)
    /\ HasKey(x, "alpha_resources") => alpha_group_schema(At(x, "alpha_resources"))
    /\ HasKey(x, "table_resources") => taxonomy_group_schema(At(x, "table_resources"))
    /\ HasKey(x, "pcoa") => pcoa_group_schema(At(x, "pcoa"))
    /\ HasKey(x, "metadata") => metadata_schema(At(x, "metadata"))

CompatibilitySchema_schema(x) ==
    /\ IsDict(x)
    /\ HasKey(x, "alpha_resources") => alpha_group_schema(At(x, "alpha_resources"))
    /\ HasKey(x, "table_resources") => taxonomy_group_schema(At(x, "table_resources"))
    /\ HasKey(x, "pcoa") => pcoa_group_schema(At(x, "pcoa"))
    /\ HasKey(x, "metadata") => metadata_schema(At(x, "metadata"))
    /\ HasKey(x, "datasets") => datasets_schema(At(x, "datasets"))

\* SchemaBase.validate: jsonschema.validate returns None or raises
validate(schema, instance) ==
    IF CASE schema = "Schema" -> Schema_schema(instance)
         [] schema = "LegacySchema" -> LegacySchema_schema(instance)
         [] OTHER -> CompatibilitySchema_schema(instance)
    THEN Return(None)
    ELSE Raise("ValidationError", NoKey)

-----------------------------------------------------------------------------
(* Bounded configuration files *)

\* the first MaxNames of UserNames serve as resource, metric and dataset names
MaxNames == 2
\* a resources section holds at most MaxGroups top-level keys
MaxGroups == 2

UserNames == <<"faith_pd", "metadata", "pcoa", "alpha_resources", "__pcoa__">>
Names == {UserNames[j] : j \in 1..MaxNames}
QzaPath == RawStr("/data/faith.qza")
One(key, val) == RawDict(<<Entry(key, val)>>)

AlphaGroups == {One(name, QzaPath) : name \in Names}
TaxonomyEntry == RawDict(<<Entry("table", QzaPath), Entry("feature-data-taxonomy", QzaPath)>>)
TaxonomyGroups == {One(name, TaxonomyEntry) : name \in Names}
BadTaxonomyGroup == One(UserNames[1], One("table", RawStr("x.qza")))
\* taxonomy entries of other shapes: a third key; one key missing; a key that
\* holds no string; no object
ExtraTaxonomyEntry ==
    RawDict(<<Entry("table", QzaPath), Entry("feature-data-taxonomy", QzaPath),
              Entry("tree", QzaPath)>>)
OddTaxonomyEntries ==
    {ExtraTaxonomyEntry,
     One("feature-data-taxonomy", QzaPath),
     RawDict(<<Entry("table", RawInt(1)), Entry("feature-data-taxonomy", QzaPath)>>),
     RawStr("x.qza")}
OddTaxonomyGroups == {One(UserNames[1], e) : e \in OddTaxonomyEntries}
PcoaGroups == {One(name, One(inner, QzaPath)) : name \in Names, inner \in Names}
DatasetValues ==
    {One("__alpha__", g) : g \in AlphaGroups}
    \cup {One("__taxonomy__", g) : g \in TaxonomyGroups \cup {BadTaxonomyGroup} \cup OddTaxonomyGroups}
    \cup {One("__pcoa__", g) : g \in PcoaGroups}
    \cup {One("alpha_resources", g) : g \in AlphaGroups}
    \cup {One("__metadata__", QzaPath)}
DatasetsValues ==
    {One("__metadata__", QzaPath)} \cup {One(name, d) : name \in Names, d \in DatasetValues}

\* the top-level keys of a section in document order, and the values each takes
GroupKeys == <<"alpha_resources", "table_resources", "pcoa", "metadata", "datasets", "resources",
               "__alpha__", "__taxonomy__", "__pcoa__", "__metadata__">>
\* a well-typed value of each current keyword
WellTyped(key) ==
    CASE key = "__alpha__" -> One(UserNames[1], QzaPath)
      [] key = "__taxonomy__" -> One(UserNames[1], TaxonomyEntry)
      [] key = "__pcoa__" -> One(UserNames[1], One(UserNames[1], QzaPath))
      [] OTHER -> QzaPath
GroupValues(key) ==
    CASE key = "alpha_resources" -> AlphaGroups \cup {RawStr("not-an-object")}
      [] key = "table_resources" -> TaxonomyGroups \cup {BadTaxonomyGroup} \cup OddTaxonomyGroups
      [] key = "pcoa" -> PcoaGroups
      [] key = "metadata" -> {QzaPath, RawDict(<<>>)}
      [] key = "datasets" -> DatasetsValues
      [] key \in {"__alpha__", "__taxonomy__", "__pcoa__", "__metadata__"} -> {WellTyped(key)}
      [] OTHER -> {RawStr("not-an-object")}

\* the sections with count top-level keys taken from GroupKeys after position lo
RECURSIVE SectionKids(_, _)
SectionKids(count, lo) ==
    IF count = 0 THEN {<<>>}
    ELSE UNION {{<<Entry(GroupKeys[j], val)>> \o q :
                    val \in GroupValues(GroupKeys[j]), q \in SectionKids(count - 1, j)} :
                j \in (lo + 1)..Len(GroupKeys)}

Sections == UNION {{RawDict(q) : q \in SectionKids(count, 0)} : count \in 0..MaxGroups}

ConfigDocs ==
    {One("resources", section) : section \in Sections}
    \cup {RawDict(<<>>), RawList(<<>>)}

Files ==
    {[kind |-> "json", doc |-> d] : d \in ConfigDocs}
    \cup {[kind |-> "missing", doc |-> None], [kind |-> "malformed", doc |-> None]}

\* every path that leads to a value of a document
RECURSIVE PathsOf(_)
PathsOf(x) ==
    {<<>>} \cup
    (IF IsDict(x)
     THEN UNION {{<<x.kids[j].k>> \o q : q \in PathsOf(x.kids[j].v)} : j \in 1..Len(x.kids)}
     ELSE IF IsList(x)
     THEN UNION {{<<IntSeg(j - 1)>> \o q : q \in PathsOf(x.kids[j].v)} : j \in 1..Len(x.kids)}
     ELSE {})

\* the value a document holds at a path that leads to one
RECURSIVE ValueAt(_, _)
ValueAt(x, path) ==
    IF Len(path) = 0 THEN x ELSE ValueAt(GetItem(x, path[1]).v, Tail2(path))

\* Python's == on values: the class of a dict, list, str or number does not count
RECURSIVE PyEq(_, _)
PyEq(a, b) ==
    IF IsDict(a) /\ IsDict(b)
    THEN /\ Len(a.kids) = Len(b.kids)
         /\ \A j \in 1..Len(a.kids) :
                /\ KeyPos(b.kids, a.kids[j].k) > 0
                /\ PyEq(a.kids[j].v, b.kids[KeyPos(b.kids, a.kids[j].k)].v)
    ELSE IF IsList(a) /\ IsList(b)
    THEN /\ Len(a.kids) = Len(b.kids)
         /\ \A j \in 1..Len(a.kids) : PyEq(a.kids[j].v, b.kids[j].v)
    ELSE IF IsStr(a) /\ IsStr(b) THEN a.s = b.s
    ELSE IF a.tag \in IntTags \cup {"bool"} /\ b.tag \in IntTags \cup {"bool"} THEN a.n = b.n
    ELSE IF a.tag \in FloatTags /\ b.tag \in FloatTags THEN a.s = b.s
    ELSE a.tag = "NoneType" /\ b.tag = "NoneType"

-----------------------------------------------------------------------------
(* Module initialisation (the bootstrap) *)

tree_state == <<json_dump, tree, last, nupd, visitor, visited>>

\* schema = CompatibilitySchema()
ActiveSchema == "CompatibilitySchema"

InitBoot ==
    /\ file \in Files
    /\ importlib \in BOOLEAN
    /\ pc = "start"
    /\ SERVER_CONFIG = Unset
    /\ resources = Unset
    /\ err = ""
    /\ json_dump = Unset
    /\ tree = Unset
    /\ last = NoCall
    /\ nupd = 0
    /\ visitor = NoVisitor
    /\ visited = <<>>

\* import importlib.resources: taken in the try block, or ImportError and the
\* except block
ImportResources ==
    /\ pc = "start"
    /\ pc' = IF importlib THEN "try" ELSE "except"
    /\ UNCHANGED <<file, importlib, SERVER_CONFIG, resources, err, tree_state>>

\* the exception open_text + json.load (resource_string + json.loads) end
\* with, "" when they return
LoadError(f) ==
    IF f.kind = "missing" THEN "FileNotFoundError"
    ELSE IF f.kind = "malformed" THEN "JSONDecodeError"
    ELSE ""

\* SERVER_CONFIG = json.load(fp), in the try block or in the except block
LoadConfig ==
    /\ pc \in {"try", "except"}
    /\ err' = LoadError(file)
    /\ pc' = IF LoadError(file) = "" THEN "loaded" ELSE "failed"
    /\ SERVER_CONFIG' = IF LoadError(file) = "" THEN file.doc ELSE SERVER_CONFIG
    /\ UNCHANGED <<file, importlib, resources, tree_state>>

\* the exception schema.validate(config['resources']) ends with, "" when it
\* returns: the subscript fails first, then the validation
ValidateError(config) ==
    LET section == GetItem(config, StrSeg("resources")) IN
    IF section.kind = "raise" THEN section.exc
    ELSE validate(ActiveSchema, section.v).exc

\* the bootstrap with the outcome of schema.validate ignored
ValidateResources_unchecked ==
    /\ pc = "loaded"
    /\ err' = GetItem(SERVER_CONFIG, StrSeg("resources")).exc
    /\ pc' = IF GetItem(SERVER_CONFIG, StrSeg("resources")).exc = "" THEN "validated" ELSE "failed"
    /\ UNCHANGED <<file, importlib, SERVER_CONFIG, resources, tree_state>>

\* schema.validate(SERVER_CONFIG['resources'])
ValidateResources ==
    /\ pc = "loaded"
    /\ err' = ValidateError(SERVER_CONFIG)
    /\ pc' = IF ValidateError(SERVER_CONFIG) = "" THEN "validated" ELSE "failed"
    /\ UNCHANGED <<file, importlib, SERVER_CONFIG, resources, tree_state>>

\* resources = dict()
CreateRegistry ==
    /\ pc = "validated"
    /\ resources' = RawDict(<<>>)
    /\ pc' = "done"
    /\ UNCHANGED <<file, importlib, SERVER_CONFIG, err, tree_state>>

\* tree = schema.make_elements(SERVER_CONFIG['resources']), by a user of the
\* imported module; the section is rewritten in place
MakeElementsOfConfig ==
    /\ pc = "done"
    /\ last.op = ""
    /\ LET section == At(SERVER_CONFIG, "resources")
           made == make_elements(ActiveSchema, section) IN
       /\ json_dump' = made.dump
       /\ SERVER_CONFIG' = One("resources", made.dump)
       /\ tree' = IF made.out.kind = "return" THEN made.out.v ELSE Unset
       /\ last' = Call("make_elements", ActiveSchema, <<>>, section, made.out)
    /\ UNCHANGED <<nupd, file, importlib, pc, resources, err, visitor, visited>>

\* the lookups made on the tree of the configuration: every path that leads
\* to a value of the resources section of the file
ConfigPaths == IF IsElement(tree) THEN PathsOf(At(file.doc, "resources")) ELSE {}

\* the statements of the module body
BootStep == ImportResources \/ LoadConfig \/ ValidateResources \/ CreateRegistry

NextBoot ==
    \/ ImportResources
    \/ LoadConfig
    \/ ValidateResources
    \/ CreateRegistry
    \/ MakeElementsOfConfig
    \/ \E args \in ConfigPaths : Gets(args)

SpecBoot == InitBoot /\ [][NextBoot]_vars

-----------------------------------------------------------------------------
(* Visiting a tree *)

\* tree.accept(v), on the tree make_elements returned
Accept(v) ==
    /\ IsElement(tree)
    /\ last.op = "make_elements"
    /\ visitor' = v
    /\ visited' = accept(tree, v, <<>>).log
    /\ last' = Call("accept", "", <<>>, None, accept(tree, v, <<>>).out)
    /\ UNCHANGED <<json_dump, tree, nupd, boot>>

\* the trees visited: those of the decoded documents under each descriptor,
\* and those of the configuration files under the active one
InitVisit == Init \/ InitBoot

NextVisit ==
    \/ ImportResources
    \/ LoadConfig
    \/ ValidateResources
    \/ CreateRegistry
    \/ MakeElementsOfConfig
    \/ \E schema \in SchemaNames : MakeElements(schema)
    \/ \E v \in Visitors : Accept(v)

SpecVisit == InitVisit /\ [][NextVisit]_vars

-----------------------------------------------------------------------------
(* Claims about the path API *)

\* C1: for every tree and every path, has(*path) returns true if and only if
\* gets(*path) completes without raising (stated of every has call made).
C1_HasIffGets ==
    last.op = "has" =>
        ((last.out.kind = "return" /\ last.out.v = True)
            <=> gets(tree, last.args).kind = "return")

\* C2: has(*path) never raises: every call returns a boolean.
C2_HasNeverRaises ==
    last.op = "has" => (last.out.kind = "return" /\ last.out.v \in {True, False})

\* the first segment of a path that cannot be indexed on the way down from x
RECURSIVE FirstFailing(_, _)
FirstFailing(x, path) ==
    IF Len(path) = 0 THEN NoKey
    ELSE IF GetItem(x, path[1]).kind = "raise" THEN path[1]
    ELSE FirstFailing(GetItem(x, path[1]).v, Tail2(path))

\* C3: whenever gets(*path) fails, the error is the key error, and it carries
\* the first path segment that could not be indexed.
C3_GetsFailsWithKeyError ==
    (last.op = "gets" /\ last.out.kind = "raise") =>
        (last.out.exc = "KeyError" /\ last.out.seg = FirstFailing(tree, last.args))

\* C4: after updates(value, *path) with a non-empty path, gets(*path) returns
\* value (the very value stored), whatever the intermediate segments held.
C4_UpdatesThenGets ==
    (last.op = "updates" /\ Len(last.args) > 0) =>
        (last.out.kind = "return" /\ gets(tree, last.args) = Return(last.value))

\* C5: updates(value) with no path segment fails with the invalid-argument
\* error (it does not return normally) and leaves the tree as it was.
C5_EmptyPathUpdateFails ==
    [][(last'.op = "updates" /\ Len(last'.args) = 0 /\ nupd' = nupd + 1) =>
           (last'.out.kind = "raise" /\ last'.out.exc = "ValueError" /\ tree' = tree)]_vars

-----------------------------------------------------------------------------
(* Claims about the bootstrap and the trees of configuration documents *)

\* the file holds a JSON object whose resources section the active schema accepts
ValidConfig(f) ==
    /\ f.kind = "json"
    /\ IsDict(f.doc)
    /\ HasKey(f.doc, "resources")
    /\ CompatibilitySchema_schema(At(f.doc, "resources"))

\* the resources section of the file
Section == At(file.doc, "resources")
BeforeValidation == {"start", "try", "except", "loaded"}
LiteralStr(str) == Mk("LiteralElement(str)", str, 0, <<>>)

C6Doc == One("resources", One("alpha_resources", One("faith_pd", QzaPath)))
C6Path == <<StrSeg("alpha_resources"), StrSeg("faith_pd")>>

C7Doc == One("resources", One("resources", RawStr("not-an-object")))
C7TypedDoc == One("resources", One("alpha_resources", RawStr("not-an-object")))

\* C7: for the document {"resources": {"resources": "not-an-object"}}
\* validation fails with a schema-validation error and loading aborts before
\* any Element tree is built.
C7_UnknownKeyRejected ==
    (file.doc = C7Doc /\ pc \notin BeforeValidation) =>
        (pc = "failed" /\ err = "ValidationError" /\ tree = Unset)

\* C7 as amended: that document passes validation (the schema does not
\* constrain a top-level key it does not name) and bootstrap does not fail;
\* validation fails with a schema-validation error, and loading aborts before
\* the registry or any tree exists, when a key the schema names holds a value
\* of the wrong type, as in {"resources": {"alpha_resources": "not-an-object"}}.
C7_WrongTypeRejected ==
    /\ file.doc = C7Doc => (pc # "failed" /\ err = "")
    /\ (file.doc = C7TypedDoc /\ pc \notin BeforeValidation) =>
            (pc = "failed" /\ err = "ValidationError" /\ tree = Unset /\ resources = Unset)

C7_Witness ==
    /\ file.doc = C7TypedDoc
    /\ pc = "failed"
    /\ err = "ValidationError"
    /\ resources = Unset

\* the error each kind of bad configuration file ends module initialisation with
ExpectedError(f) ==
    IF f.kind = "missing" THEN "FileNotFoundError"
    ELSE IF f.kind = "malformed" THEN "JSONDecodeError"
    ELSE IF ~IsDict(f.doc) THEN "TypeError"
    ELSE IF ~HasKey(f.doc, "resources") THEN "KeyError"
    ELSE "ValidationError"

\* C8: bootstrap is all-or-nothing: with a missing file, malformed JSON, no
\* resources section or a section the compatibility schema rejects, module
\* initialisation ends with an error and the registry is never created; in
\* every run the registry exists only after validation has succeeded.
C8_AllOrNothing ==
    /\ resources # Unset => (pc = "done" /\ ValidConfig(file))
    /\ pc \in {"validated", "done"} => ValidConfig(file)
    /\ pc = "failed" => (err = ExpectedError(file) /\ ~ValidConfig(file) /\ resources = Unset)
    /\ (~ValidConfig(file) /\ pc # "failed") => (pc \in BeforeValidation /\ ENABLED BootStep)

C8_Witness ==
    /\ pc = "failed"
    /\ err = "ValidationError"
    /\ file.kind = "json"
    /\ HasKey(file.doc, "resources")
    /\ resources = Unset

LegacyKeys == {"alpha_resources", "table_resources", "pcoa", "metadata"}
LegacyOnly(section) == \A j \in 1..Len(section.kids) : section.kids[j].k.s \in LegacyKeys

\* C9: for a document that validates and uses only the legacy top-level keys,
\* make_elements builds a tree, and every legacy path gets('<legacy key>',
\* <name>, ...) that exists in the document returns a value equal to the one
\* the document holds there, whatever the user-chosen names are.
C9_LegacyPathsReachable ==
    (ValidConfig(file) /\ LegacyOnly(Section)) =>
        /\ last.op = "make_elements" => last.out.kind = "return"
        /\ (last.op = "gets" /\ Len(last.args) >= 2) =>
                (last.out.kind = "return" /\ PyEq(last.out.v, ValueAt(Section, last.args)))

\* the sections that hold one well-formed legacy group and, under datasets,
\* one dataset with one well-formed current group
LegacyEntries ==
    {Entry("alpha_resources", g) : g \in AlphaGroups}
    \cup {Entry("table_resources", g) : g \in TaxonomyGroups}
    \cup {Entry("pcoa", g) : g \in PcoaGroups}
CurrentDatasets ==
    {One("__alpha__", g) : g \in AlphaGroups}
    \cup {One("__taxonomy__", g) : g \in TaxonomyGroups}
    \cup {One("__pcoa__", g) : g \in PcoaGroups}
BothForms ==
    {RawDict(<<e, Entry("datasets", One(name, d))>>) :
        e \in LegacyEntries, name \in Names, d \in CurrentDatasets}

\* C10: a document holding both a legacy top-level group and the current
\* nested form datasets.<name>.__alpha__ (__taxonomy__, __pcoa__) passes
\* validation, and in its tree both the nested path and the legacy path return
\* the value the document holds there.
C10_BothFormsCoexist ==
    (file.kind = "json" /\ IsDict(file.doc) /\ HasKey(file.doc, "resources")
        /\ Section \in BothForms) =>
        /\ pc # "failed"
        /\ last.op = "make_elements" => last.out.kind = "return"
        /\ (last.op = "gets" /\ Len(last.args) >= 4 /\ last.args[1] = StrSeg("datasets")) =>
                (last.out.kind = "return" /\ PyEq(last.out.v, ValueAt(Section, last.args)))
        /\ (last.op = "gets" /\ Len(last.args) >= 2 /\ last.args[1] # StrSeg("datasets")) =>
                (last.out.kind = "return" /\ PyEq(last.out.v, ValueAt(Section, last.args)))

-----------------------------------------------------------------------------
(* Claims about the three descriptors *)

\* two outcomes are alike: both return equal values, or both raise the same
\* exception
SameOutcome(a, b) ==
    /\ a.kind = b.kind
    /\ a.kind = "return" => PyEq(a.v, b.v)
    /\ a.kind = "raise" => a.exc = b.exc

\* C11: gets and has give the same results on the trees the current, legacy
\* and compatibility descriptors build from one document: for every lookup
\* made on the tree of a configuration section, each descriptor builds a tree
\* from that section, gets on it returns an equal value or fails alike, and
\* has gives the same answer.
C11_SameUnderAllSchemas ==
    last.op = "gets" =>
        \A schema \in SchemaNames :
            LET built == make_elements(schema, Section).out IN
            /\ built.kind = "return"
            /\ SameOutcome(gets(built.v, last.args), last.out)
            /\ has(built.v, last.args) = has(tree, last.args)

-----------------------------------------------------------------------------
(* Claims about ElementFactory *)

\* C12: get_element classifies every value by type: None and booleans are
\* returned unchanged (a boolean is never wrapped as an int literal), ints,
\* floats and strs become literal elements equal to the scalar, lists become
\* ListElement and dicts DictElement with the same entries, and a value of any
\* other type fails with NotImplementedError naming that type.
C12_GetElementClassifies ==
    last.op = "get_element" =>
        LET obj == last.value
            out == last.out
            literal(type) ==
                /\ out.kind = "return"
                /\ out.v.tag = "LiteralElement(" \o type \o ")"
                /\ IsElement(out.v)
                /\ PyEq(out.v, obj)
        IN CASE obj.tag \in {"NoneType", "bool"} -> out = Return(obj)
             [] obj.tag = "int" -> literal("int")
             [] obj.tag = "float" -> literal("float")
             [] obj.tag = "str" -> literal("str")
             [] obj.tag = "list" ->
                    out.kind = "return" /\ out.v.tag = "ListElement" /\ out.v.kids = obj.kids
             [] obj.tag = "dict" ->
                    out.kind = "return" /\ out.v.tag = "DictElement" /\ out.v.kids = obj.kids
             [] OTHER ->
                    /\ out.kind = "raise"
                    /\ out.exc = "NotImplementedError"
                    /\ out.seg = StrSeg("No Element for type: <class '" \o obj.tag \o "'>")

C12_Witness ==
    /\ last.op = "get_element"
    /\ last.value = True
    /\ last.out = Return(True)
    /\ tree = True

\* v[p1][p2]...: indexing a value successively by the segments of a path
RECURSIVE Indexing(_, _)
Indexing(x, path) ==
    IF Len(path) = 0 THEN Return(x)
    ELSE IF GetItem(x, path[1]).kind = "raise" THEN GetItem(x, path[1])
    ELSE Indexing(GetItem(x, path[1]).v, Tail2(path))

JsonTags == {"NoneType", "bool", "int", "float", "str", "list", "dict"}

\* C13: for every value v of a JSON type and every path p, e = get_element(v)
\* supports gets and has, e.gets(*p) returns what indexing v by the segments
\* of p returns and fails exactly when that indexing fails, and e.has(*p) is
\* true exactly when that indexing succeeds.
C13_FactoryMatchesIndexing ==
    /\ (last.op = "get_element" /\ last.value.tag \in JsonTags) =>
            (last.out.kind = "return" /\ IsElement(tree))
    /\ last.op = "gets" =>
            IF Indexing(json_dump, last.args).kind = "return"
            THEN last.out.kind = "return" /\ PyEq(last.out.v, Indexing(json_dump, last.args).v)
            ELSE last.out.kind = "raise"
    /\ last.op = "has" =>
            last.out = Return(IF Indexing(json_dump, last.args).kind = "return"
                              THEN True ELSE False)

-----------------------------------------------------------------------------
(* Claims about the compatibility schema *)

\* an object holding both string keys table and feature-data-taxonomy
BothStringKeys(e) ==
    /\ e.tag = "dict"
    /\ \E j \in 1..Len(e.kids) : e.kids[j].k = StrSeg("table") /\ e.kids[j].v.tag = "str"
    /\ \E j \in 1..Len(e.kids) :
            e.kids[j].k = StrSeg("feature-data-taxonomy") /\ e.kids[j].v.tag = "str"

\* the taxonomy resource entries of a section: those of table_resources and
\* of datasets.<name>.__taxonomy__
EntriesOf(group) == IF IsDict(group) THEN {group.kids[j].v : j \in 1..Len(group.kids)} ELSE {}
TaxonomyEntriesOf(section) ==
    (IF HasKey(section, "table_resources") THEN EntriesOf(At(section, "table_resources")) ELSE {})
    \cup (IF HasKey(section, "datasets")
          THEN UNION {IF IsDict(d) /\ HasKey(d, "__taxonomy__")
                      THEN EntriesOf(At(d, "__taxonomy__")) ELSE {} :
                        d \in EntriesOf(At(section, "datasets"))}
          ELSE {})

\* the sections that hold one taxonomy entry and nothing else
TaxonomyOnly(section) ==
    \E e \in {TaxonomyEntry, One("table", RawStr("x.qza"))} \cup OddTaxonomyEntries :
        \/ \E n \in Names : section = One("table_resources", One(n, e))
        \/ \E d \in Names, n \in Names :
                section = One("datasets", One(d, One("__taxonomy__", One(n, e))))

C14Doc == One("resources", One("table_resources", One("faith_pd", One("table", RawStr("x.qza")))))

\* C14: under the compatibility schema a taxonomy resource entry (under
\* table_resources or under datasets.<name>.__taxonomy__) passes validation if
\* and only if it is an object holding both string keys table and
\* feature-data-taxonomy; with an entry {"table": "x.qza"} validation fails and
\* loading aborts.
C14_TaxonomyNeedsBothKeys ==
    (file.kind = "json" /\ IsDict(file.doc) /\ HasKey(file.doc, "resources")
        /\ pc \notin BeforeValidation) =>
        /\ (\E e \in TaxonomyEntriesOf(Section) : ~BothStringKeys(e)) =>
                (pc = "failed" /\ err = "ValidationError" /\ resources = Unset /\ tree = Unset)
        /\ (TaxonomyOnly(Section) /\ \A e \in TaxonomyEntriesOf(Section) : BothStringKeys(e)) =>
                (pc \in {"validated", "done"} /\ err = "")
        /\ file.doc = C14Doc => (pc = "failed" /\ err = "ValidationError")

C14_Witness ==
    /\ file.doc = C14Doc
    /\ pc = "failed"
    /\ err = "ValidationError"
    /\ resources = Unset

CurrentKeywords == {"__alpha__", "__taxonomy__", "__pcoa__", "__metadata__"}
TopLevelDoc(key) == One("resources", One(key, WellTyped(key)))
NestedDoc(key) == One("resources", One("datasets", One(UserNames[1], One(key, WellTyped(key)))))
Validated == pc \in {"validated", "done"} /\ err = ""
Rejected == pc = "failed" /\ err = "ValidationError" /\ resources = Unset

\* C15: the compatibility schema accepts each of the four current keywords
\* __alpha__, __taxonomy__, __pcoa__ and __metadata__, with a well-typed
\* value, both at the top level of the resources section and beneath a
\* datasets.<dataset-name> object: every such document passes validation.
C15_AllFourAccepted ==
    pc \notin BeforeValidation =>
        \A key \in CurrentKeywords :
            file.doc \in {TopLevelDoc(key), NestedDoc(key)} => Validated

\* C15 as amended: a document with any of the four keywords at the top level
\* of the section passes validation (the schema does not constrain them
\* there); beneath datasets.<dataset-name> the schema accepts __alpha__,
\* __taxonomy__ and __pcoa__ with a well-typed value and rejects __metadata__
\* (a dataset allows no further key); __metadata__ is accepted, with a string
\* value, directly beneath datasets.
C15_KeywordPlacement ==
    pc \notin BeforeValidation =>
        /\ \A key \in CurrentKeywords : file.doc = TopLevelDoc(key) => Validated
        /\ \A key \in CurrentKeywords \ {"__metadata__"} : file.doc = NestedDoc(key) => Validated
        /\ file.doc = NestedDoc("__metadata__") => Rejected
        /\ file.doc = One("resources", One("datasets", One("__metadata__", QzaPath))) => Validated

C15_Witness ==
    /\ file.doc = NestedDoc("__metadata__")
    /\ pc = "failed"
    /\ err = "ValidationError"

-----------------------------------------------------------------------------
(* Claims about accept *)

TypedTags == {"AlphaElement", "TaxonomyElement", "PCOAElement", "MetadataElement"}
\* the paths of the typed nodes of a tree, at every depth
TypedPaths(x) == {p \in PathsOf(x) : ValueAt(x, p).tag \in TypedTags}
\* path q lies strictly beneath path p
Beneath(q, p) == Len(q) > Len(p) /\ SubSeq(q, 1, Len(p)) = p

\* C16: if accept(visitor) is called on a tree that holds a typed node at any
\* depth and the visitor does not implement the hook of that node's kind, the
\* accept call on the root does not complete normally: it fails and the
\* failure reaches the caller.
C16_IncompleteVisitorFails ==
    (last.op = "accept"
        /\ \E p \in TypedPaths(tree) : visitor[HookOf(ValueAt(tree, p).tag)] # "implemented") =>
        last.out.kind = "raise"

\* C17: one accept(visitor) call on the root, with a visitor that implements
\* every hook, returns normally and invokes exactly one callback for every
\* typed node of the tree, of the kind matching the node's type, and no other
\* callback; the callback of a typed node comes after the callbacks of all
\* typed nodes beneath it; children without accept are skipped without error.
C17_OneCallbackPerTypedNode ==
    (last.op = "accept" /\ visitor = CompleteVisitor) =>
        /\ last.out = Return(None)
        /\ \A p \in TypedPaths(tree) :
                /\ Cardinality({i \in 1..Len(visited) : visited[i].at = p}) = 1
                /\ \A i \in 1..Len(visited) :
                        visited[i].at = p => visited[i].hook = HookOf(ValueAt(tree, p).tag)
        /\ \A i \in 1..Len(visited) : visited[i].at \in TypedPaths(tree)
        /\ \A i, j \in 1..Len(visited) : Beneath(visited[j].at, visited[i].at) => j < i

\* a typed container visited after the typed node beneath it
C17_Witness ==
    /\ last.op = "accept"
    /\ visitor = CompleteVisitor
    /\ last.out = Return(None)
    /\ Len(visited) = 2
    /\ visited[1].hook = "visit_metadata"
    /\ visited[2].hook = "visit_pcoa"
    /\ Beneath(visited[1].at, visited[2].at)

-----------------------------------------------------------------------------
(* Claims about make_elements *)

CurrentMap ==
    [__alpha__ |-> "AlphaElement", __taxonomy__ |-> "TaxonomyElement",
     __pcoa__ |-> "PCOAElement", __metadata__ |-> "MetadataElement"]
LegacyMap ==
    [alpha_resources |-> "AlphaElement", table_resources |-> "TaxonomyElement",
     pcoa |-> "PCOAElement", metadata |-> "MetadataElement"]
\* the keywords of both spellings and some keys that are no keyword
SomeKeys == DOMAIN CurrentMap \cup DOMAIN LegacyMap \cup {"a", "faith_pd", "datasets", ""}

\* the element type make_elements gives the value at path q of a document:
\* that of the key when the value sits in a dict, none in a list or at the root
TypeAt(schema, doc, q) ==
    IF Len(q) > 0 /\ IsDict(ValueAt(doc, SubSeq(q, 1, Len(q) - 1)))
    THEN element_map(schema, q[Len(q)])
    ELSE ""

\* the positions of a document that are still positions of its tree: no value
\* above them was rebuilt as a str, or as a dict from something else
Kept(schema, doc, p) ==
    \A n \in 1..(Len(p) - 1) :
        LET q == SubSeq(p, 1, n) IN
        \/ TypeAt(schema, doc, q) = ""
        \/ TypeAt(schema, doc, q) # "MetadataElement" /\ IsDict(ValueAt(doc, q))

\* C18: make_elements processes a document bottom-up: every dict value whose
\* key is a keyword of the active schema's element map is, after its own
\* recursive processing, wrapped in the typed element mapped to that key, and
\* no other value is typed; the current schema tags only the four current
\* keywords, the legacy schema only the four legacy ones, the compatibility
\* schema both spellings with the same four types; the value returned is what
\* get_element gives for the processed structure. (Stated of the calls that
\* return.)
C18_TagsKeywordsBottomUp ==
    /\ \A key \in SomeKeys :
            /\ element_map("Schema", StrSeg(key)) =
                    (IF key \in DOMAIN CurrentMap THEN CurrentMap[key] ELSE "")
            /\ element_map("LegacySchema", StrSeg(key)) =
                    (IF key \in DOMAIN LegacyMap THEN LegacyMap[key] ELSE "")
            /\ element_map("CompatibilitySchema", StrSeg(key)) =
                    (IF key \in DOMAIN CurrentMap THEN CurrentMap[key]
                     ELSE IF key \in DOMAIN LegacyMap THEN LegacyMap[key] ELSE "")
    /\ (last.op = "make_elements" /\ last.out.kind = "return") =>
            LET doc == last.value
                schema == last.schema
            IN /\ last.out = get_element(json_dump)
               /\ \A p \in PathsOf(doc) \ {<<>>} :
                      Kept(schema, doc, p) =>
                          LET type == TypeAt(schema, doc, p)
                              node == ValueAt(json_dump, p)
                              processed == make_elements(schema, ValueAt(doc, p)).out
                          IN /\ processed.kind = "return"
                             /\ IF type # ""
                                THEN /\ node.tag = type
                                     /\ Return(node) = Construct(type, processed.v)
                                ELSE /\ node = processed.v
                                     /\ node.tag \notin TypedTags

\* a typed element built over a value that holds a typed element itself
C18_Witness ==
    /\ last.op = "make_elements"
    /\ last.schema = "CompatibilitySchema"
    /\ last.out.kind = "return"
    /\ \E p \in TypedPaths(tree) :
            /\ Len(p) = 2
            /\ ValueAt(tree, SubSeq(p, 1, 1)).tag = "PCOAElement"
            /\ Kept("CompatibilitySchema", last.value, p)

\* C19: after make_elements(document) returns, every value reachable from
\* the tree by a dict key or a list index, at every depth, is an Element or a
\* passthrough scalar (None or a boolean): no raw dict, list, str, int or
\* float remains; and every list of the document is a list of the tree with
\* the same length and its entries in the same order.
C19_OnlyElementsRemain ==
    (last.op = "make_elements" /\ last.out.kind = "return") =>
        /\ \A p \in PathsOf(tree) :
                IsElement(ValueAt(tree, p)) \/ ValueAt(tree, p).tag \in {"NoneType", "bool"}
        /\ \A p \in PathsOf(last.value) :
                (IsList(ValueAt(last.value, p)) /\ Kept(last.schema, last.value, p)) =>
                    /\ IsList(ValueAt(tree, p))
                    /\ Len(ValueAt(tree, p).kids) = Len(ValueAt(last.value, p).kids)
                    /\ \A j \in 1..Len(ValueAt(last.value, p).kids) :
                            ValueAt(tree, p).kids[j].v =
                                make_elements(last.schema, ValueAt(last.value, p).kids[j].v).out.v

\* the element type the compatibility schema defines for the position p of a
\* section: the top-level legacy groups, datasets.__metadata__ and
\* datasets.<name>.__alpha__ / __taxonomy__ / __pcoa__; "" anywhere else
SchemaType(p) ==
    IF Len(p) = 1 /\ p[1].s \in DOMAIN LegacyMap THEN LegacyMap[p[1].s]
    ELSE IF p = <<StrSeg("datasets"), StrSeg("__metadata__")>> THEN "MetadataElement"
    ELSE IF Len(p) = 3 /\ p[1] = StrSeg("datasets") /\ p[2] # StrSeg("__metadata__")
            /\ p[3].s \in {"__alpha__", "__taxonomy__", "__pcoa__"}
    THEN CurrentMap[p[3].s]
    ELSE ""

\* the class get_element and make_elements give a value that is not tagged
UntypedTag(x) ==
    IF IsDict(x) THEN "DictElement"
    ELSE IF IsList(x) THEN "ListElement"
    ELSE IF x.tag \in {"NoneType", "bool"} THEN x.tag
    ELSE "LiteralElement(" \o x.tag \o ")"

\* C20: in the tree make_elements builds from a section that validates under
\* the compatibility schema, a value is a typed element only at the positions
\* where the schema defines that resource kind; a user-chosen resource, metric
\* or dataset name that equals a keyword is never tagged and its value keeps
\* its JSON type and content. (Stated of the sections whose top-level keys
\* are the ones the schema names.)
C20_TypedOnlyAtSchemaPositions ==
    (ValidConfig(file) /\ last.op = "make_elements"
        /\ \A j \in 1..Len(Section.kids) :
                Section.kids[j].k.s \in DOMAIN LegacyMap \cup {"datasets"}) =>
        /\ last.out.kind = "return"
        /\ \A p \in PathsOf(Section) \ {<<>>} :
                /\ gets(tree, p).kind = "return"
                /\ PyEq(gets(tree, p).v, ValueAt(Section, p))
                /\ gets(tree, p).v.tag =
                        (IF SchemaType(p) # "" THEN SchemaType(p)
                         ELSE UntypedTag(ValueAt(Section, p)))

-----------------------------------------------------------------------------
(* Claims about the frame of updates *)

\* path p is a prefix of path q (or equal to it)
IsPrefix(p, q) == Len(p) <= Len(q) /\ SubSeq(q, 1, Len(p)) = p

\* C21: updates(value, *path) with a non-empty path changes only what lies at
\* the path: every path q that resolved with gets before the call, is not a
\* prefix of path and does not have path as a prefix, resolves to the same
\* value after the call; in particular the entries of a list held by an
\* intermediate segment of path are still reachable afterwards.
C21_UpdatesChangesOnlyThePath ==
    [][(last'.op = "updates" /\ nupd' = nupd + 1 /\ Len(last'.args) > 0) =>
           \A q \in PathsOf(tree) :
               (gets(tree, q).kind = "return"
                    /\ ~IsPrefix(q, last'.args) /\ ~IsPrefix(last'.args, q)) =>
                   gets(tree', q) = gets(tree, q)]_vars

====
